---- MODULE Spec2Model ----
(***************************************************************************)
(* Model of src/nba_analytics/data_cleaner.py: the cleaning stages         *)
(* (BaseNBATransformer subclasses) and the NBADataCleaner pipeline.        *)
(*                                                                         *)
(* A table (pandas DataFrame) is [cols |-> set of column names,            *)
(* rows |-> sequence of functions cols -> cell].  A cell is a tagged pair: *)
(* <<"num", v>> a number (v in units of 1/Scale), <<"null", 0>> NaN/NA,    *)
(* <<"text", s>> a Python str (s a sequence of characters) and             *)
(* <<"bool", b>> a boolean.                                                *)
(***************************************************************************)
EXTENDS Integers, Sequences, FiniteSets, TLC

\* Numbers are fixed point: the integer v stands for v / Scale.  Scale is a
\* multiple of 60 (seconds of a clock string) and of 8 (quartiles and the
\* half-integer outlier thresholds), so the arithmetic below is exact for
\* the inputs of the model.
Scale == 60 * 8

N(k) == k * Scale

Num(v) == <<"num", v>>
NULL == <<"null", 0>>
\* pd.NA, the null that the text cleaning and the Int64 conversion write
NA == <<"null", 1>>
Txt(s) == <<"text", s>>
Bool(b) == <<"bool", b>>

IsNum(c) == c[1] = "num"
IsNull(c) == c[1] = "null"
IsText(c) == c[1] = "text"

Abs(x) == IF x < 0 THEN 0 - x ELSE x

----------------------------------------------------------------------------
(* Python str helpers, over sequences of one-character strings *)

DigitVal == ("0" :> 0) @@ ("1" :> 1) @@ ("2" :> 2) @@ ("3" :> 3) @@ ("4" :> 4)
            @@ ("5" :> 5) @@ ("6" :> 6) @@ ("7" :> 7) @@ ("8" :> 8) @@ ("9" :> 9)

IsDigit(ch) == ch \in DOMAIN DigitVal

RECURSIVE LStrip(_)
LStrip(s) == IF s # <<>> /\ Head(s) = " " THEN LStrip(Tail(s)) ELSE s

RECURSIVE RStrip(_)
RStrip(s) == IF s # <<>> /\ s[Len(s)] = " " THEN RStrip(SubSeq(s, 1, Len(s) - 1)) ELSE s

\* str.strip()
Strip(s) == RStrip(LStrip(s))

RECURSIVE DigitsValue(_)
DigitsValue(s) == IF s = <<>> THEN 0
                  ELSE 10 * DigitsValue(SubSeq(s, 1, Len(s) - 1)) + DigitVal[s[Len(s)]]

AllDigits(s) == s # <<>> /\ \A i \in 1..Len(s) : IsDigit(s[i])

\* Python float(s) for the strings that the model passes to it, which are
\* made of digits, a sign, blanks, ':' and the letter x (no decimal point,
\* exponent, 'nan' or 'inf'): <<TRUE, value>> or <<FALSE, 0>> for ValueError.
ParseDigits(body, sign) ==
    IF AllDigits(body) THEN <<TRUE, sign * N(DigitsValue(body))>> ELSE <<FALSE, 0>>

ParseSigned(t) ==
    IF t # <<>> /\ Head(t) \in {"-", "+"}
    THEN ParseDigits(Tail(t), IF Head(t) = "-" THEN 0 - 1 ELSE 1)
    ELSE ParseDigits(t, 1)

ParseFloat(s) == ParseSigned(Strip(s))

\* index of the first ch in s, 0 when absent
RECURSIVE IndexOf(_, _, _)
IndexOf(s, ch, i) == IF i > Len(s) THEN 0
                     ELSE IF s[i] = ch THEN i ELSE IndexOf(s, ch, i + 1)

\* str.split(':')[0] and str.split(':')[1] of a string that contains ':'
SplitPart0(s) == SubSeq(s, 1, IndexOf(s, ":", 1) - 1)
UpTo(rest, j) == IF j = 0 THEN rest ELSE SubSeq(rest, 1, j - 1)
UpToColon(rest) == UpTo(rest, IndexOf(rest, ":", 1))
SplitPart1(s) == UpToColon(SubSeq(s, IndexOf(s, ":", 1) + 1, Len(s)))

\* MinutesConverter.convert_to_decimal: the float it returns, in 1/Scale.
\* minutes + (seconds / 60), or 0.0 when either float() raised ValueError
MinutesSeconds(m, s) == IF m[1] /\ s[1] THEN m[2] + (s[2] \div 60) ELSE 0

\* float(minutes_str), or 0.0 on ValueError
FloatOrZero(f) == IF f[1] THEN f[2] ELSE 0

\* the try block of convert_to_decimal
ParseMinutes(minutes_str) ==
    IF IndexOf(minutes_str, ":", 1) > 0
    THEN MinutesSeconds(ParseFloat(SplitPart0(minutes_str)),
                        ParseFloat(SplitPart1(minutes_str)))
    ELSE FloatOrZero(ParseFloat(minutes_str))

convert_to_decimal(c) ==
    IF IsNull(c) \/ c = Txt(<<>>) THEN 0
    ELSE IF IsNum(c) THEN c[2]
    ELSE IF c[1] = "bool" THEN 0
    ELSE ParseMinutes(Strip(c[2]))

\* pd.to_numeric(value, errors='coerce') of one cell
NumOrNaN(f) == IF f[1] THEN Num(f[2]) ELSE NULL

to_numeric(c) ==
    IF IsText(c) THEN NumOrNaN(ParseFloat(c[2]))
    ELSE IF c[1] = "bool" THEN Num(IF c[2] THEN N(1) ELSE 0)
    ELSE c

\* character codes of the model's alphabet, for Python's str comparison
CharCode == (" " :> 32) @@ ("+" :> 43) @@ ("-" :> 45) @@ (":" :> 58) @@ ("x" :> 120)
            @@ [ch \in DOMAIN DigitVal |-> 48 + DigitVal[ch]]

RECURSIVE StrGreater(_, _)
StrGreater(s, t) ==
    IF s = <<>> THEN FALSE
    ELSE IF t = <<>> THEN TRUE
    ELSE IF CharCode[Head(s)] # CharCode[Head(t)] THEN CharCode[Head(s)] > CharCode[Head(t)]
    ELSE StrGreater(Tail(s), Tail(t))

----------------------------------------------------------------------------
(* DataFrame helpers *)

NRows(X) == Len(X.rows)
Rows(X) == 1..Len(X.rows)
Col(X, c) == [i \in Rows(X) |-> X.rows[i][c]]

\* a row with the cell of column c set to v (c is added when it is absent)
SetCell(row, c, v) ==
    IF c \in DOMAIN row THEN [row EXCEPT ![c] = v] ELSE (c :> v) @@ row

RECURSIVE SetColumn(_, _, _, _)
SetColumn(rows, c, values, i) ==
    IF i > Len(rows) THEN <<>>
    ELSE <<SetCell(rows[i], c, values[i])>> \o SetColumn(rows, c, values, i + 1)

\* X[c] = values (a column assignment: c is added when it is absent)
WithCol(X, c, values) ==
    [cols |-> X.cols \cup {c}, rows |-> SetColumn(X.rows, c, values, 1)]

\* X[c] = values[c] for each column c of the list cs that X has, in turn;
\* values[c] is computed from the column c alone
RECURSIVE MapColumns(_, _, _, _)
MapColumns(X, cs, values, i) ==
    IF i > Len(cs) THEN X
    ELSE IF cs[i] \notin X.cols THEN MapColumns(X, cs, values, i + 1)
    ELSE MapColumns(WithCol(X, cs[i], values[cs[i]]), cs, values, i + 1)

\* X.drop(c, axis=1)
DropCol(X, c) ==
    [cols |-> X.cols \ {c},
     rows |-> [i \in Rows(X) |-> [k \in X.cols \ {c} |-> X.rows[i][k]]]]

\* X[mask]: the rows whose mask is true, in order
RECURSIVE KeepRows(_, _, _)
KeepRows(rows, mask, i) ==
    IF i > Len(rows) THEN <<>>
    ELSE (IF mask[i] THEN <<rows[i]>> ELSE <<>>) \o KeepRows(rows, mask, i + 1)

Filter(X, mask) == [cols |-> X.cols, rows |-> KeepRows(X.rows, mask, 1)]

\* an ordering comparison of an object column with a number raises TypeError
\* when a str meets the number (nulls compare False and never raise)
ColHasText(X, c) == \E i \in Rows(X) : IsText(X.rows[i][c])

\* element of (column > number): False for a null
GtNum(c, k) == IsNum(c) /\ c[2] > k
LtNum(c, k) == IsNum(c) /\ c[2] < k

\* The working state of a _transform_impl: t is what the local name X is
\* bound to, arg is the object that was passed in (mutated by in-place
\* assignments while X is still bound to it), raised is an exception.
Begin(X) == [raised |-> FALSE, t |-> X, arg |-> X, alias |-> TRUE]

\* an in-place assignment X[...] = ..., which raises when bad
Assign(r, bad, t2) ==
    IF r.raised THEN r
    ELSE IF bad THEN [r EXCEPT !.raised = TRUE]
    ELSE [r EXCEPT !.t = t2, !.arg = IF r.alias THEN t2 ELSE r.arg]

\* X = <new object>
Rebind(r, t2) ==
    IF r.raised THEN r ELSE [r EXCEPT !.t = t2, !.alias = FALSE]

----------------------------------------------------------------------------
(* DataTypeConverter *)

id_columns == <<"id", "player_id", "player_team_id", "team_id",
                "game_id", "game_home_team_id", "game_visitor_team_id">>

stat_columns == <<"fgm", "fga", "fg_pct", "fg3m", "fg3a", "fg3_pct",
                  "ftm", "fta", "ft_pct", "oreb", "dreb", "reb",
                  "ast", "stl", "blk", "turnover", "pf", "pts">>

text_columns == <<"player_first_name", "player_last_name", "player_position",
                  "team_abbreviation", "team_full_name">>

\* the strings 'nan', 'None' and '' that the text cleaning replaces by pd.NA
NaStrings == {<<"n", "a", "n">>, <<"N", "o", "n", "e">>, <<>>}

\* X[col].astype(str).str.strip() then .replace(['nan', 'None', ''], pd.NA),
\* for the str and null cells the model's text columns hold
ReplaceNaStrings(t) == IF t \in NaStrings THEN NA ELSE Txt(t)

CleanText(c) ==
    IF c = NA THEN Txt(<<"<", "N", "A", ">">>)
    ELSE IF IsNull(c) THEN NA
    ELSE IF IsText(c) THEN ReplaceNaStrings(Strip(c[2]))
    ELSE c

CleanTextColumns(X) ==
    MapColumns(X, text_columns,
               [c \in X.cols |-> [j \in Rows(X) |-> CleanText(X.rows[j][c])]], 1)

\* pd.to_numeric(X[col], errors='coerce').astype('Int64') for each id column
\* in turn; astype raises TypeError on a number that is not whole
NaIfNull(v) == IF IsNull(v) THEN NA ELSE v

Fractional(v) == IsNum(v) /\ v[2] % Scale # 0

AsInt64(r, col, vals) ==
    Assign(r, \E j \in DOMAIN vals : Fractional(vals[j]), WithCol(r.t, col, vals))

RECURSIVE ConvertIds(_, _)
ConvertIds(r, i) ==
    IF i > Len(id_columns) \/ r.raised THEN r
    ELSE IF id_columns[i] \notin r.t.cols THEN ConvertIds(r, i + 1)
    ELSE ConvertIds(AsInt64(r, id_columns[i],
                            [j \in Rows(r.t) |->
                               NaIfNull(to_numeric(r.t.rows[j][id_columns[i]]))]),
                    i + 1)

ConvertStats(X) ==
    MapColumns(X, stat_columns,
               [c \in X.cols |-> [j \in Rows(X) |-> to_numeric(X.rows[j][c])]], 1)

\* DataTypeConverter._transform_impl.  The columns game_date, game_season
\* and game_postseason are outside the model's tables, so their branches
\* are never taken.
\* X[col] = pd.to_numeric(X[col], errors='coerce') for each stat column
StatsStep(r) == Assign(r, FALSE, ConvertStats(r.t))

\* X = X.drop('min', axis=1)
DropMin(r) == Rebind(r, DropCol(r.t, "min"))

\* X['minutes_played'] = X['min'].apply(convert_to_decimal), then the drop
MinutesStep(r) ==
    IF r.raised \/ "min" \notin r.t.cols THEN r
    ELSE DropMin(Assign(r, FALSE,
                        WithCol(r.t, "minutes_played",
                                [j \in Rows(r.t) |->
                                   Num(convert_to_decimal(r.t.rows[j]["min"]))])))

TextStep(r) == Assign(r, FALSE, CleanTextColumns(r.t))

DataTypeConverter_impl(X) == TextStep(MinutesStep(StatsStep(ConvertIds(Begin(X), 1))))

----------------------------------------------------------------------------
(* MissingValueHandler *)

percentage_mappings == << <<"fg_pct", "fga", "fgm">>,
                          <<"fg3_pct", "fg3a", "fg3m">>,
                          <<"ft_pct", "fta", "ftm">> >>

counting_stats == <<"fgm", "fga", "fg3m", "fg3a", "ftm", "fta",
                    "oreb", "dreb", "reb", "ast", "stl", "blk",
                    "turnover", "pf", "pts">>

\* X.loc[(X[att] == 0) & X[pct].isna(), pct] = 0.0
ZeroAttempts(X, pct, att) ==
    WithCol(X, pct, [j \in Rows(X) |->
                       IF X.rows[j][att] = Num(0) /\ IsNull(X.rows[j][pct])
                       THEN Num(0) ELSE X.rows[j][pct]])

\* missing_pct_mask = X[pct].isna() & (X[att] > 0)
MissingPctMask(X, pct, att) ==
    [j \in Rows(X) |-> IsNull(X.rows[j][pct]) /\ GtNum(X.rows[j][att], 0)]

\* made / attempted of one row (NaN when made is null)
Ratio(made, att) ==
    IF IsNull(made) THEN NULL ELSE Num((made[2] * Scale) \div att[2])

\* X.loc[mask, pct] = X.loc[mask, made] / X.loc[mask, att]
Recalculate(X, pct, att, made) ==
    WithCol(X, pct, [j \in Rows(X) |->
                       IF MissingPctMask(X, pct, att)[j]
                       THEN Ratio(X.rows[j][made], X.rows[j][att])
                       ELSE X.rows[j][pct]])

RECURSIVE FillPercentages(_, _)
FillPercentages(r, i) ==
    IF i > Len(percentage_mappings) \/ r.raised THEN r
    ELSE LET pct == percentage_mappings[i][1]
             att == percentage_mappings[i][2]
             made == percentage_mappings[i][3]
         IN  IF ~({pct, att} \subseteq r.t.cols) THEN FillPercentages(r, i + 1)
             ELSE LET a == Assign(r, FALSE, ZeroAttempts(r.t, pct, att))
                      mask == MissingPctMask(a.t, pct, att)
                      b == IF made \notin a.t.cols THEN a
                           ELSE IF ColHasText(a.t, att) THEN Assign(a, TRUE, a.t)
                           ELSE IF \A j \in Rows(a.t) : ~mask[j] THEN a
                           ELSE Assign(a,
                                       \E j \in Rows(a.t) : mask[j] /\ ~IsNum(a.t.rows[j][made])
                                                            /\ ~IsNull(a.t.rows[j][made]),
                                       Recalculate(a.t, pct, att, made))
                  IN  FillPercentages(b, i + 1)

\* a fillna that leaves the cell as it is
FillZero_keep(c) == c

\* value.fillna(0) of one cell
FillZero(c) == IF IsNull(c) THEN Num(0) ELSE c

\* X[col] = X[col].fillna(0) for the columns of the list cs present in X
FillNa(X, cs) ==
    MapColumns(X, cs, [c \in X.cols |-> [j \in Rows(X) |-> FillZero(X.rows[j][c])]], 1)

\* the counting stats loop, under fill_counting_stats_with_zero
FillCountingStats(cfg, r) ==
    IF cfg.fill_counting_stats_with_zero /\ ~r.raised
    THEN Assign(r, FALSE, FillNa(r.t, counting_stats))
    ELSE r

\* X['minutes_played'] = X['minutes_played'].fillna(0)
FillMinutes(r) ==
    IF r.raised THEN r ELSE Assign(r, FALSE, FillNa(r.t, <<"minutes_played">>))

\* MissingValueHandler._transform_impl
MissingValueHandler_impl(cfg, X) ==
    FillMinutes(FillCountingStats(cfg, FillPercentages(Begin(X), 1)))

----------------------------------------------------------------------------
(* DataValidator *)

shot_checks == << <<"fgm", "fga">>, <<"fg3m", "fg3a">>, <<"ftm", "fta">> >>

pct_columns == <<"fg_pct", "fg3_pct", "ft_pct">>

sanity_columns == <<"pts", "reb", "ast">>

\* the rebound tolerance 0.1
RebTolerance == Scale \div 10

\* a comparison that finds no violation
MadeGtAtt_none(m, a) == FALSE

\* element of X[made] > X[att]: False when either side is null
MadeGtAtt(m, a) ==
    \/ IsNum(m) /\ IsNum(a) /\ m[2] > a[2]
    \/ IsText(m) /\ IsText(a) /\ StrGreater(m[2], a[2])

\* a str compared with a number raises TypeError
MixedCompare(m, a) == (IsText(m) /\ IsNum(a)) \/ (IsNum(m) /\ IsText(a))

CheckMinutes(cfg, r) ==
    IF "minutes_played" \notin r.t.cols \/ r.raised THEN r
    ELSE IF ColHasText(r.t, "minutes_played") THEN Assign(r, TRUE, r.t)
    ELSE IF cfg.auto_fix_inconsistencies
              /\ \E j \in Rows(r.t) : GtNum(r.t.rows[j]["minutes_played"], cfg.max_minutes_per_game)
         THEN Assign(r, FALSE,
                     WithCol(r.t, "minutes_played",
                             [j \in Rows(r.t) |->
                                IF GtNum(r.t.rows[j]["minutes_played"], cfg.max_minutes_per_game)
                                THEN Num(cfg.max_minutes_per_game)
                                ELSE r.t.rows[j]["minutes_played"]]))
         ELSE r

RECURSIVE CheckShots(_, _, _)
CheckShots(cfg, r, i) ==
    IF i > Len(shot_checks) \/ r.raised THEN r
    ELSE LET made == shot_checks[i][1]
             att == shot_checks[i][2]
         IN  IF ~({made, att} \subseteq r.t.cols) THEN CheckShots(cfg, r, i + 1)
             ELSE LET bad == \E j \in Rows(r.t) : MixedCompare(r.t.rows[j][made], r.t.rows[j][att])
                      fix == cfg.auto_fix_inconsistencies
                             /\ \E j \in Rows(r.t) : MadeGtAtt(r.t.rows[j][made], r.t.rows[j][att])
                      fixed == WithCol(r.t, made,
                                       [j \in Rows(r.t) |->
                                          IF MadeGtAtt(r.t.rows[j][made], r.t.rows[j][att])
                                          THEN r.t.rows[j][att] ELSE r.t.rows[j][made]])
                  IN  CheckShots(cfg,
                                 IF bad THEN Assign(r, TRUE, r.t)
                                 ELSE IF fix THEN Assign(r, FALSE, fixed) ELSE r,
                                 i + 1)

\* element of X['oreb'] + X['dreb']: NaN when either is null, str + str
\* concatenates; str + number raises
RebSum(o, d) ==
    IF IsNull(o) \/ IsNull(d) THEN NULL
    ELSE IF IsNum(o) /\ IsNum(d) THEN Num(o[2] + d[2])
    ELSE Txt(o[2] \o d[2])

RebSumRaises(o, d) == (IsText(o) /\ IsNum(d)) \/ (IsNum(o) /\ IsText(d))

\* a comparison that finds no mismatch
RebMismatch_none(reb, s) == FALSE

\* element of abs(X['reb'] - calculated_reb) > 0.1: False for a null
RebMismatch(reb, s) == IsNum(reb) /\ IsNum(s) /\ Abs(reb[2] - s[2]) > RebTolerance

\* X['reb'] - calculated_reb raises when a str is subtracted
RebDiffRaises(reb, s) == ~IsNull(reb) /\ ~IsNull(s) /\ (IsText(reb) \/ IsText(s))

\* a rebound check that recomputes the total whatever the configuration
CheckRebounds_always(cfg, r) ==
    IF ~({"reb", "oreb", "dreb"} \subseteq r.t.cols) \/ r.raised THEN r
    ELSE Assign(r,
                \E j \in Rows(r.t) :
                    \/ RebSumRaises(r.t.rows[j]["oreb"], r.t.rows[j]["dreb"])
                    \/ RebDiffRaises(r.t.rows[j]["reb"],
                                     RebSum(r.t.rows[j]["oreb"], r.t.rows[j]["dreb"])),
                WithCol(r.t, "reb",
                        [j \in Rows(r.t) |-> RebSum(r.t.rows[j]["oreb"], r.t.rows[j]["dreb"])]))

CheckRebounds(cfg, r) ==
    IF ~({"reb", "oreb", "dreb"} \subseteq r.t.cols) \/ r.raised THEN r
    ELSE LET X == r.t
             bad == \E j \in Rows(X) :
                       \/ RebSumRaises(X.rows[j]["oreb"], X.rows[j]["dreb"])
                       \/ RebDiffRaises(X.rows[j]["reb"],
                                        RebSum(X.rows[j]["oreb"], X.rows[j]["dreb"]))
             calculated_reb == [j \in Rows(X) |-> RebSum(X.rows[j]["oreb"], X.rows[j]["dreb"])]
         IN  IF bad THEN Assign(r, TRUE, X)
             ELSE IF cfg.auto_fix_inconsistencies
                       /\ \E j \in Rows(X) : RebMismatch(X.rows[j]["reb"], calculated_reb[j])
                  THEN Assign(r, FALSE, WithCol(X, "reb", calculated_reb))
                  ELSE r

\* X[col].clip(0, 1) of one cell
Clip(c, lo, hi) ==
    IF ~IsNum(c) THEN c
    ELSE IF c[2] < lo THEN Num(lo) ELSE IF c[2] > hi THEN Num(hi) ELSE c

RECURSIVE CheckPercentages(_, _, _)
CheckPercentages(cfg, r, i) ==
    IF i > Len(pct_columns) \/ r.raised THEN r
    ELSE LET col == pct_columns[i]
         IN  IF col \notin r.t.cols THEN CheckPercentages(cfg, r, i + 1)
             ELSE LET fix == cfg.auto_fix_inconsistencies
                             /\ \E j \in Rows(r.t) : \/ LtNum(r.t.rows[j][col], 0)
                                                     \/ GtNum(r.t.rows[j][col], Scale)
                  IN  CheckPercentages(cfg,
                         IF ColHasText(r.t, col) THEN Assign(r, TRUE, r.t)
                         ELSE IF fix
                              THEN Assign(r, FALSE,
                                          WithCol(r.t, col,
                                                  [j \in Rows(r.t) |->
                                                     Clip(r.t.rows[j][col], 0, Scale)]))
                              ELSE r,
                         i + 1)

\* the extreme-value checks only report; the comparison raises on a str
CheckSanity(r) ==
    IF r.raised THEN r
    ELSE Assign(r, \E i \in 1..Len(sanity_columns) :
                       sanity_columns[i] \in r.t.cols /\ ColHasText(r.t, sanity_columns[i]),
                r.t)

\* DataValidator._transform_impl
DataValidator_impl(cfg, X) ==
    CheckSanity(CheckPercentages(cfg,
                    CheckRebounds(cfg, CheckShots(cfg, CheckMinutes(cfg, Begin(X)), 1)), 1))

----------------------------------------------------------------------------
(* OutlierDetector *)

outlier_columns == <<"pts", "reb", "ast", "minutes_played", "fga", "fg3a">>

FlagColumn == [pts |-> "pts_outlier_flag", reb |-> "reb_outlier_flag",
               ast |-> "ast_outlier_flag",
               minutes_played |-> "minutes_played_outlier_flag",
               fga |-> "fga_outlier_flag", fg3a |-> "fg3a_outlier_flag"]

\* the non-null numbers of a column, in row order: X[col].dropna()
RECURSIVE DropNa(_, _)
DropNa(col, i) ==
    IF i > Len(col) THEN <<>>
    ELSE (IF IsNull(col[i]) THEN <<>> ELSE <<col[i][2]>>) \o DropNa(col, i + 1)

RECURSIVE Insert(_, _)
Insert(v, s) == IF s = <<>> THEN <<v>>
                ELSE IF v <= Head(s) THEN <<v>> \o s
                ELSE <<Head(s)>> \o Insert(v, Tail(s))

RECURSIVE Sorted(_)
Sorted(s) == IF s = <<>> THEN <<>> ELSE Insert(Head(s), Sorted(Tail(s)))

\* Series.quantile(num / 4) with linear interpolation; the series is not empty
Interpolate(a, p) ==
    IF p % 4 = 0 THEN a[p \div 4 + 1]
    ELSE a[p \div 4 + 1] + ((p % 4) * (a[p \div 4 + 2] - a[p \div 4 + 1])) \div 4

QuantileSorted(a, num) == Interpolate(a, num * (Len(a) - 1))

Quantile(s, num) == QuantileSorted(Sorted(s), num)

\* OutlierDetector._calculate_outlier_bounds for outlier_method 'iqr' (the
\* only method of the model's configurations); the quantile of an empty
\* series is NaN, and so are both bounds.  outlier_threshold2 is twice the
\* configured outlier_threshold.
IqrBounds(cfg, Q1, Q3) ==
    [lo |-> Num(Q1 - (cfg.outlier_threshold2 * (Q3 - Q1)) \div 2),
     hi |-> Num(Q3 + (cfg.outlier_threshold2 * (Q3 - Q1)) \div 2)]

calculate_outlier_bounds(cfg, s) ==
    IF s = <<>> THEN [lo |-> NULL, hi |-> NULL]
    ELSE IqrBounds(cfg, Quantile(s, 1), Quantile(s, 3))

\* a dict shared by every instance: a fit writes into the other instance's
BoundsOfOther_shared(written, others) == written

\* OutlierDetector.__init__ binds self.outlier_bounds_ to a new dict, so the
\* dict that a fit writes (written) is not the dict of another instance
\* (others), which stays as it was
BoundsOfOther(written, others) == others

\* the loop of OutlierDetector.fit over outlier_columns: the bounds of each
\* column present in X are overwritten in the dict; the quantile of a column
\* holding a str raises TypeError, leaving the entries written so far
RECURSIVE FitBounds(_, _, _, _)
FitBounds(cfg, X, b, i) ==
    IF i > Len(outlier_columns) \/ b.raised THEN b
    ELSE LET col == outlier_columns[i]
         IN  IF col \notin X.cols THEN FitBounds(cfg, X, b, i + 1)
             ELSE IF ColHasText(X, col) THEN [b EXCEPT !.raised = TRUE]
             ELSE FitBounds(cfg, X,
                            [b EXCEPT !.bounds =
                                (col :> calculate_outlier_bounds(cfg, DropNa(Col(X, col), 1)))
                                @@ b.bounds],
                            i + 1)

\* a mask that tests the lower bound only
OutlierMask_lower(c, b) == IsNum(c) /\ IsNum(b.lo) /\ c[2] < b.lo[2]

\* a mask that tests the upper bound only
OutlierMask_upper(c, b) == IsNum(c) /\ IsNum(b.hi) /\ c[2] > b.hi[2]

\* element of (X[col] < lower_bound) | (X[col] > upper_bound); comparisons
\* with a null value or a NaN bound are False
OutlierMask(c, b) ==
    IsNum(c) /\ ((IsNum(b.lo) /\ c[2] < b.lo[2]) \/ (IsNum(b.hi) /\ c[2] > b.hi[2]))

\* X[col].clip(lower_bound, upper_bound); a NaN bound does not clip
ClipBounds(c, b) ==
    IF ~IsNum(c) THEN c
    ELSE IF IsNum(b.lo) /\ c[2] < b.lo[2] THEN b.lo
    ELSE IF IsNum(b.hi) /\ c[2] > b.hi[2] THEN b.hi
    ELSE c

\* the loop of OutlierDetector._transform_impl over the stored bounds.  The
\* code walks the dict in insertion order; the columns are handled one by
\* one and independently, so the table that results is the same in the
\* order of outlier_columns.
RECURSIVE ApplyBounds(_, _, _, _)
ApplyBounds(cfg, bounds, r, i) ==
    IF i > Len(outlier_columns) \/ r.raised THEN r
    ELSE LET col == outlier_columns[i]
         IN  IF col \notin DOMAIN bounds \/ col \notin r.t.cols
             THEN ApplyBounds(cfg, bounds, r, i + 1)
             ELSE LET X == r.t
                      outliers_mask == [j \in Rows(X) |-> OutlierMask(X.rows[j][col], bounds[col])]
                      next ==
                        IF ColHasText(X, col) THEN Assign(r, TRUE, X)
                        ELSE IF cfg.outlier_action = "flag"
                        THEN Assign(r, FALSE,
                                    WithCol(X, FlagColumn[col],
                                            [j \in Rows(X) |-> Bool(outliers_mask[j])]))
                        ELSE IF cfg.outlier_action = "cap"
                        THEN Assign(r, FALSE,
                                    WithCol(X, col,
                                            [j \in Rows(X) |->
                                               ClipBounds(X.rows[j][col], bounds[col])]))
                        ELSE Rebind(r, Filter(X, [j \in Rows(X) |-> ~outliers_mask[j]]))
                  IN  ApplyBounds(cfg, bounds, next, i + 1)

\* a transform that recomputes the bounds from the table it is given
OutlierDetector_refit(cfg, bounds, X) ==
    ApplyBounds(cfg, FitBounds(cfg, X, [raised |-> FALSE, bounds |-> bounds], 1).bounds,
                Begin(X), 1)

\* OutlierDetector._transform_impl
OutlierDetector_impl(cfg, bounds, X) == ApplyBounds(cfg, bounds, Begin(X), 1)

----------------------------------------------------------------------------
(* TextDataCleaner and FinalQualityChecker *)

\* TextDataCleaner.position_mapping
position_mapping(s) ==
    IF s = <<"G">> THEN <<"G", "u", "a", "r", "d">>
    ELSE IF s = <<"F">> THEN <<"F", "o", "r", "w", "a", "r", "d">>
    ELSE IF s = <<"C">> THEN <<"C", "e", "n", "t", "e", "r">>
    ELSE IF s \in {<<"G", "-", "F">>, <<"F", "-", "G">>}
    THEN <<"G", "u", "a", "r", "d", "-", "F", "o", "r", "w", "a", "r", "d">>
    ELSE IF s \in {<<"F", "-", "C">>, <<"C", "-", "F">>}
    THEN <<"F", "o", "r", "w", "a", "r", "d", "-", "C", "e", "n", "t", "e", "r">>
    ELSE s

\* TextDataCleaner._transform_impl.  player_first_name and player_last_name
\* are outside the model's tables, so player_full_name is never derived.
StandardizePositions(cfg, r) ==
    IF "player_position" \in r.t.cols /\ cfg.standardize_positions
    THEN Assign(r, FALSE,
                WithCol(r.t, "player_position_standardized",
                        [j \in Rows(r.t) |->
                           IF IsText(r.t.rows[j]["player_position"])
                           THEN Txt(position_mapping(r.t.rows[j]["player_position"][2]))
                           ELSE r.t.rows[j]["player_position"]]))
    ELSE r

TextDataCleaner_impl(cfg, X) == StandardizePositions(cfg, TextStep(Begin(X)))

\* two cells are the same key value for duplicated(): nulls match nulls
SameKey(a, b) == (IsNull(a) /\ IsNull(b)) \/ a = b

\* ~X.duplicated(subset=['player_id', 'game_id']): the first occurrences
FirstOccurrence(X) ==
    [j \in Rows(X) |->
       ~\E k \in 1..(j - 1) : /\ SameKey(X.rows[k]["player_id"], X.rows[j]["player_id"])
                             /\ SameKey(X.rows[k]["game_id"], X.rows[j]["game_id"])]

\* FinalQualityChecker._transform_impl.  game_date is outside the model's
\* tables, so the sort by (game_date, player_id) is never taken.
FinalQualityChecker_impl(X) ==
    IF {"player_id", "game_id"} \subseteq X.cols
         /\ \E j \in Rows(X) : ~FirstOccurrence(X)[j]
    THEN Rebind(Begin(X), Filter(X, FirstOccurrence(X)))
    ELSE Begin(X)

----------------------------------------------------------------------------
(* BaseNBATransformer: the fit/transform contract of a stage *)

StageNames == <<"type_conversion", "missing_values", "validation",
                "outlier_detection", "text_cleaning", "final_checks">>

EmptyTable == [cols |-> {}, rows |-> <<>>]

\* a _validate_input that returns X itself
validate_input_shared(X) == [raised |-> FALSE, copy |-> FALSE]

\* BaseNBATransformer._validate_input.  No statement of the module assigns
\* required_columns_, so hasattr(self, 'required_columns_') is False and the
\* missing-columns error is never raised; the result is X.copy().
validate_input(X) == [raised |-> FALSE, copy |-> TRUE]

\* the _transform_impl of the stage called name
transform_impl(name, cfg, bounds, X) ==
    CASE name = "type_conversion" -> DataTypeConverter_impl(X)
      [] name = "missing_values" -> MissingValueHandler_impl(cfg, X)
      [] name = "validation" -> DataValidator_impl(cfg, X)
      [] name = "outlier_detection" -> OutlierDetector_impl(cfg, bounds, X)
      [] name = "text_cleaning" -> TextDataCleaner_impl(cfg, X)
      [] OTHER -> FinalQualityChecker_impl(X)

\* what BaseNBATransformer.transform returns after _transform_impl ended as r
Outcome(X, r) ==
    [raised |-> r.raised,
     error |-> IF r.raised THEN "stage" ELSE "none",
     out |-> IF r.raised THEN EmptyTable ELSE r.t,
     arg |-> IF validate_input(X).copy THEN X ELSE r.arg]

\* a transform without the is_fitted_ check
transform_unchecked(name, fitted, cfg, bounds, X) ==
    Outcome(X, transform_impl(name, cfg, bounds, X))

\* BaseNBATransformer.transform: error is "unfitted" before fit, "stage"
\* when _transform_impl raises; out is the returned table; arg is the
\* caller's table object after the call.
transform(name, fitted, cfg, bounds, X) ==
    IF ~fitted THEN [raised |-> TRUE, error |-> "unfitted", out |-> EmptyTable, arg |-> X]
    ELSE Outcome(X, transform_impl(name, cfg, bounds, X))

\* BaseNBATransformer.fit and OutlierDetector.fit: _validate_input, (for the
\* outlier stage) the bounds loop, then _store_input_info sets is_fitted_.
\* feature_names_in_ and n_features_in_ are written and never read, and are
\* left out of the state.
store_input_info(fitted, b) ==
    [raised |-> b.raised,
     fitted |-> IF b.raised THEN fitted ELSE TRUE,
     bounds |-> b.bounds]

fit(name, fitted, cfg, bounds, X) ==
    store_input_info(fitted,
                     IF name = "outlier_detection"
                     THEN FitBounds(cfg, X, [raised |-> FALSE, bounds |-> bounds], 1)
                     ELSE [raised |-> FALSE, bounds |-> bounds])

----------------------------------------------------------------------------
(* NBADataCleaner *)

\* a fit_transform whose result is not passed on to the next stage
FitTransformed_unchained(s, name, f, t) ==
    [raised |-> f.raised \/ t.raised,
     st |-> [s.st EXCEPT ![name] = f.fitted],
     bounds |-> f.bounds,
     X_temp |-> s.X_temp]

\* transformer.fit(X_temp) then X_temp = transformer.transform(X_temp) of
\* the stage called name: f is what fit did and t what transform did
FitTransformed(s, name, f, t) ==
    [raised |-> f.raised \/ t.raised,
     st |-> [s.st EXCEPT ![name] = f.fitted],
     bounds |-> f.bounds,
     X_temp |-> IF f.raised \/ t.raised THEN s.X_temp ELSE t.out]

ThenTransform(cfg, s, name, f) ==
    FitTransformed(s, name, f,
                   IF f.raised THEN [raised |-> TRUE, out |-> EmptyTable]
                   ELSE transform(name, f.fitted, cfg, f.bounds, s.X_temp))

\* the loop of NBADataCleaner.fit: s is [raised, st, bounds, X_temp]
RECURSIVE FitLoop(_, _, _, _)
FitLoop(cfg, ts, s, i) ==
    IF i > Len(ts) \/ s.raised THEN s
    ELSE FitLoop(cfg, ts,
                 ThenTransform(cfg, s, ts[i],
                               fit(ts[i], s.st[ts[i]], cfg, s.bounds, s.X_temp)),
                 i + 1)

\* what the loop of NBADataCleaner.transform does with the outcome t of a stage
Forward(s, name, t) ==
    IF t.raised THEN [X_clean |-> t.arg, skipped |-> s.skipped \cup {name}]
    ELSE [X_clean |-> t.out, skipped |-> s.skipped]

\* a loop that stops at the first stage that raises
RECURSIVE TransformLoop_halting(_, _, _, _, _, _)
TransformLoop_halting(cfg, ts, st, bounds, s, i) ==
    IF i > Len(ts) \/ s.skipped # {} THEN s
    ELSE TransformLoop_halting(cfg, ts, st, bounds,
                               Forward(s, ts[i],
                                       transform(ts[i], st[ts[i]], cfg, bounds, s.X_clean)),
                               i + 1)

\* the loop of NBADataCleaner.transform: s is [X_clean, skipped]; a stage
\* that raises is skipped and X_clean keeps its value
RECURSIVE TransformLoop(_, _, _, _, _, _)
TransformLoop(cfg, ts, st, bounds, s, i) ==
    IF i > Len(ts) THEN s
    ELSE TransformLoop(cfg, ts, st, bounds,
                       Forward(s, ts[i], transform(ts[i], st[ts[i]], cfg, bounds, s.X_clean)),
                       i + 1)

\* X.isnull().sum().sum()
MissingCount(X) ==
    Cardinality({<<i, k>> \in Rows(X) \X X.cols : IsNull(X.rows[i][k])})

\* a report that counts the new columns as the columns added
generate_cleaning_report_new(cfg, X_original, X_cleaned) ==
    [original_shape |-> <<NRows(X_original), Cardinality(X_original.cols)>>,
     cleaned_shape |-> <<NRows(X_cleaned), Cardinality(X_cleaned.cols)>>,
     rows_removed |-> NRows(X_original) - NRows(X_cleaned),
     columns_added |-> Cardinality(X_cleaned.cols \ X_original.cols),
     missing_values_before |-> MissingCount(X_original),
     missing_values_after |-> MissingCount(X_cleaned),
     new_columns |-> X_cleaned.cols \ X_original.cols,
     removed_columns |-> X_original.cols \ X_cleaned.cols,
     config_used |-> cfg]

\* NBADataCleaner._generate_cleaning_report, without cleaning_timestamp.
\* config_used is self.config.__dict__, the attribute dict of the config
\* object itself and not a copy of it: cfg is its content at the call.
generate_cleaning_report(cfg, X_original, X_cleaned) ==
    [original_shape |-> <<NRows(X_original), Cardinality(X_original.cols)>>,
     cleaned_shape |-> <<NRows(X_cleaned), Cardinality(X_cleaned.cols)>>,
     rows_removed |-> NRows(X_original) - NRows(X_cleaned),
     columns_added |-> Cardinality(X_cleaned.cols) - Cardinality(X_original.cols),
     missing_values_before |-> MissingCount(X_original),
     missing_values_after |-> MissingCount(X_cleaned),
     new_columns |-> X_cleaned.cols \ X_original.cols,
     removed_columns |-> X_original.cols \ X_cleaned.cols,
     config_used |-> cfg]

----------------------------------------------------------------------------
(* The state: one object under test, a pipeline (NBADataCleaner) or a     *)
(* single stage, and the last call made on it.                            *)

VARIABLES
    target,             \* "pipeline", the name of the stage under test, or "none"
    config,             \* self.config (CleaningConfig)
    transformers,       \* the names of self.transformers, in order
    st,                 \* is_fitted_ of each stage
    outlier_bounds_,    \* OutlierDetector.outlier_bounds_
    is_fitted_,         \* NBADataCleaner.is_fitted_
    cleaning_report_,   \* NBADataCleaner.cleaning_report_: <<>> is None
    other,              \* a second pipeline built with the same config object: its
                        \* stages' is_fitted_, outlier_bounds_, its is_fitted_ and
                        \* cleaning_report_; <<>> when there is none
    call                \* the last call: its input, outcome and result

vars == <<target, config, transformers, st, outlier_bounds_, is_fitted_,
          cleaning_report_, other, call>>

\* CleaningConfig defaults
max_minutes_per_game == 60
default_outlier_threshold2 == 6
aggressive_outlier_threshold2 == 5
default_drop_threshold_missing_pct == 95
aggressive_drop_threshold_missing_pct == 90
\* the default of the parameter missing_threshold of create_nba_data_cleaner
default_missing_threshold == 5

DefaultConfig ==
    [max_minutes_per_game |-> N(max_minutes_per_game),
     fill_counting_stats_with_zero |-> TRUE,
     outlier_method |-> "iqr",
     outlier_threshold2 |-> default_outlier_threshold2,
     outlier_action |-> "flag",
     drop_threshold_missing_pct |-> default_drop_threshold_missing_pct,
     standardize_positions |-> TRUE,
     strict_validation |-> TRUE,
     auto_fix_inconsistencies |-> TRUE]

\* the configurations of the model: the default (create_basic_cleaner),
\* capping, capping without zero filling, report-only validation, and the
\* aggressive preset (create_aggressive_cleaner)
CapConfig == [DefaultConfig EXCEPT !.outlier_action = "cap"]

CapNoFillConfig == [CapConfig EXCEPT !.fill_counting_stats_with_zero = FALSE]

ReportOnlyConfig == [DefaultConfig EXCEPT !.auto_fix_inconsistencies = FALSE]

AggressiveConfig ==
    [DefaultConfig EXCEPT !.outlier_action = "remove",
                          !.outlier_threshold2 = aggressive_outlier_threshold2,
                          !.drop_threshold_missing_pct = aggressive_drop_threshold_missing_pct]

\* the configuration of create_minimal_cleaner
MinimalConfig == [DefaultConfig EXCEPT !.strict_validation = FALSE]

\* arguments that CleaningConfig rejects
UnknownMethodConfig == [DefaultConfig EXCEPT !.outlier_method = "mad"]

UnknownActionConfig == [DefaultConfig EXCEPT !.outlier_action = "drop"]

\* CleaningConfig.__post_init__ raises ValueError
post_init(cfg) ==
    \/ cfg.outlier_method \notin {"iqr", "zscore"}
    \/ cfg.outlier_action \notin {"flag", "cap", "remove"}

\* NBADataCleaner.__init__: the enabled stages in their fixed order
Enabled(include) == SelectSeq(StageNames, LAMBDA n : n \in include)

AllStages == {StageNames[i] : i \in 1..Len(StageNames)}

\* the stages of create_minimal_cleaner
MinimalStages == AllStages \ {"outlier_detection", "text_cleaning"}

\* an object built from a config: constructed is the config as
\* CleaningConfig(...) returned it, config the one the object holds
Built(target_, cfg, include) ==
    [target |-> target_, constructed |-> cfg, config |-> cfg, include |-> include,
     pair |-> FALSE]

\* two pipelines built one after the other with the same config object and
\* the same stages
BuiltPair(cfg, include) ==
    [target |-> "pipeline", constructed |-> cfg, config |-> cfg, include |-> include,
     pair |-> TRUE]

\* create_nba_data_cleaner(missing_threshold): config = CleaningConfig(),
\* then config.drop_threshold_missing_pct = missing_threshold, then the
\* pipeline of every stage
create_nba_data_cleaner(missing_threshold) ==
    [target |-> "pipeline",
     constructed |-> DefaultConfig,
     config |-> [DefaultConfig EXCEPT !.drop_threshold_missing_pct = missing_threshold],
     include |-> AllStages,
     pair |-> FALSE]

\* the objects under test: a pipeline of every stage under three of the
\* configurations (the default one is create_basic_cleaner, the aggressive
\* one create_aggressive_cleaner), the pipeline of create_minimal_cleaner,
\* the pipeline of create_nba_data_cleaner, each stage on its own under the
\* configurations its code reads, two constructions that CleaningConfig
\* rejects, and a pair of pipelines of the outlier stage sharing one config
Setups ==
    {Built("pipeline", c, AllStages) : c \in {DefaultConfig, CapNoFillConfig, AggressiveConfig}}
    \cup {Built("pipeline", MinimalConfig, MinimalStages)}
    \cup {create_nba_data_cleaner(default_missing_threshold)}
    \cup {Built(n, DefaultConfig, {n}) : n \in AllStages}
    \cup {Built("outlier_detection", c, {"outlier_detection"}) : c \in {CapConfig, AggressiveConfig}}
    \cup {Built("missing_values", CapNoFillConfig, {"missing_values"}),
          Built("validation", ReportOnlyConfig, {"validation"})}
    \cup {Built("pipeline", c, AllStages) : c \in {UnknownMethodConfig, UnknownActionConfig}}
    \cup {BuiltPair(DefaultConfig, {"outlier_detection"})}

\* the call record of a state in which no method was called yet:
\* constructed is the config as CleaningConfig(...) returned it
NoCall(constructed) ==
    [op |-> "init", X |-> EmptyTable, after |-> EmptyTable, raised |-> FALSE,
     error |-> "none", out |-> EmptyTable, skipped |-> {}, constructed |-> constructed]

\* the constructor raised: there is no object ("none") to call
NoObject ==
    [op |-> "init", X |-> EmptyTable, after |-> EmptyTable, raised |-> TRUE,
     error |-> "config", out |-> EmptyTable, skipped |-> {}]

Init ==
    /\ \E s \in Setups :
          /\ target = IF post_init(s.constructed) THEN "none" ELSE s.target
          /\ config = s.config
          /\ transformers = IF post_init(s.constructed) THEN <<>> ELSE Enabled(s.include)
          /\ call = IF post_init(s.constructed) THEN NoObject ELSE NoCall(s.constructed)
          /\ other = IF s.pair
                     THEN [st |-> [n \in AllStages |-> FALSE], outlier_bounds_ |-> <<>>,
                           is_fitted_ |-> FALSE, cleaning_report_ |-> <<>>]
                     ELSE <<>>
    /\ st = [n \in AllStages |-> FALSE]
    /\ outlier_bounds_ = <<>>
    /\ is_fitted_ = FALSE
    /\ cleaning_report_ = <<>>

----------------------------------------------------------------------------
(* The tables the calls are made with *)

\* a whole number as a cell, and a str written as its characters
I(k) == Num(N(k))

ColumnsA == {"player_id", "game_id", "pts", "oreb", "dreb", "reb"}

RowA(player_id, game_id, pts, oreb, dreb, reb) ==
    [c \in ColumnsA |->
        CASE c = "player_id" -> player_id
          [] c = "game_id" -> game_id
          [] c = "pts" -> pts
          [] c = "oreb" -> oreb
          [] c = "dreb" -> dreb
          [] OTHER -> reb]

\* a consistent row; an extreme row with the same key; a null offensive
\* rebound; a rebound mismatch; a total within the tolerance of the sum; a
\* fractional identifier with a null defensive rebound; a non-numeric str
\* with a rebound mismatch
RowA1 == RowA(I(1), I(1), I(2), I(1), I(1), I(2))
RowA2 == RowA(I(1), I(1), I(40), I(4), I(4), I(8))
RowA3 == RowA(I(2), I(1), I(2), NULL, I(1), I(2))
RowA4 == RowA(I(3), I(1), I(2), I(1), I(1), I(5))
RowA5 == RowA(I(3), I(2), I(2), I(1), I(1), Num(N(2) + 32))
RowA6 == RowA(Num(N(1) + N(1) \div 2), I(2), I(2), I(1), NULL, I(2))
RowA7 == RowA(I(2), I(2), Txt(<<"x">>), I(1), I(1), I(5))

\* two rows of one game whose identifiers are different strings that are
\* not numbers
RowA8 == RowA(Txt(<<"x">>), I(1), I(2), I(1), I(1), I(2))
RowA9 == RowA(Txt(<<"y">>), I(1), I(3), I(1), I(1), I(2))


ColumnsB == {"player_id", "min", "fgm", "fga", "fg_pct", "player_position"}

RowB(player_id, min, fgm, fga, fg_pct, player_position) ==
    [c \in ColumnsB |->
        CASE c = "player_id" -> player_id
          [] c = "min" -> min
          [] c = "fgm" -> fgm
          [] c = "fga" -> fga
          [] c = "fg_pct" -> fg_pct
          [] OTHER -> player_position]

\* a consistent row; made above attempted with a missing percentage; an
\* all-null row; more than 60 minutes with null attempts; zero attempts;
\* extreme attempts with a percentage above 1; a fractional identifier
RowB1 == RowB(I(1), Txt(<<"3", "0", ":", "4", "5">>), I(2), I(4), Num(N(1) \div 2), Txt(<<"G">>))
RowB2 == RowB(I(1), Txt(<<"x">>), I(5), I(3), NULL, Txt(<<" ", "F", "-", "G">>))
RowB3 == RowB(I(2), NULL, NULL, NULL, NULL, Txt(<<"n", "a", "n">>))
RowB4 == RowB(I(2), Txt(<<"7", "0">>), I(3), NULL, NULL, NULL)
RowB5 == RowB(I(3), Txt(<<"5", ":", "3", "0">>), I(0), I(0), NULL, Txt(<<"C", "-", "F">>))
RowB6 == RowB(I(3), I(12), I(20), I(40), Num(N(3) \div 2), Txt(<<"P", "G">>))
RowB7 == RowB(Num(N(3) + N(1) \div 2), I(10), I(1), I(2), NULL, Txt(<<"C">>))

\* a consistent row whose minutes are the string "-5"
RowB8 == RowB(I(4), Txt(<<"-", "5">>), I(1), I(2), Num(N(1) \div 2), Txt(<<"C">>))

ColumnsC == {"minutes_played", "pts", "ast"}

RowC(minutes_played, pts, ast) ==
    [c \in ColumnsC |->
        CASE c = "minutes_played" -> minutes_played
          [] c = "pts" -> pts
          [] OTHER -> ast]

\* more than 60 minutes with extreme points and assists; an ordinary row
RowC1 == RowC(I(70), I(120), I(30))
RowC2 == RowC(I(30), I(10), I(3))

\* the runs of n consecutive rows of a sample (the sample when it is shorter)
Windows(sample, n) ==
    IF Len(sample) <= n THEN {sample}
    ELSE {SubSeq(sample, i, i + n - 1) : i \in 1..(Len(sample) - n + 1)}

TablesOver(columns, sample, n) ==
    {[cols |-> columns, rows |-> w] : w \in Windows(sample, n)}

\* the number of rows of a table passed to a call
MaxRows == 2

\* the tables passed to transform
Tables ==
    {[cols |-> ColumnsA, rows |-> <<>>]}
    \cup TablesOver(ColumnsA, <<RowA1, RowA2, RowA3, RowA4, RowA5, RowA6, RowA7>>, MaxRows)
    \cup TablesOver(ColumnsA, <<RowA8, RowA9>>, MaxRows)
    \cup TablesOver(ColumnsB, <<RowB1, RowB2, RowB6, RowB3, RowB4, RowB5, RowB7>>, MaxRows)
    \cup TablesOver(ColumnsB, <<RowB8>>, MaxRows)
    \cup TablesOver(ColumnsC, <<RowC1, RowC2>>, MaxRows)

\* the tables passed to fit and fit_transform
FitTables ==
    TablesOver(ColumnsA, <<RowA6, RowA7, RowA1, RowA2>>, MaxRows)
    \cup TablesOver(ColumnsA, <<RowA8, RowA9>>, MaxRows)
    \cup TablesOver(ColumnsB, <<RowB4, RowB3, RowB1>>, MaxRows)

\* the tables passed to the second pipeline
OtherFitTables == TablesOver(ColumnsA, <<RowA1, RowA2>>, MaxRows)

OtherTables == TablesOver(ColumnsA, <<RowA2, RowA3>>, MaxRows)

----------------------------------------------------------------------------
(* The calls *)

Raised(op, X, after, error) ==
    [op |-> op, X |-> X, after |-> after, raised |-> TRUE, error |-> error,
     out |-> EmptyTable, skipped |-> {}]

Returned(op, X, after, out, skipped) ==
    [op |-> op, X |-> X, after |-> after, raised |-> FALSE, error |-> "none",
     out |-> out, skipped |-> skipped]

\* the state after NBADataCleaner.fit(X): X_temp = X.copy(), the loop, then
\* is_fitted_ = True; an exception of a stage propagates out of the loop
FitResult(X) ==
    FitLoop(config, transformers,
            [raised |-> FALSE, st |-> st, bounds |-> outlier_bounds_, X_temp |-> X], 1)

\* what a fit that ended as f leaves in the pipeline
Fitted(f) ==
    /\ st' = f.st
    /\ outlier_bounds_' = f.bounds
    /\ is_fitted_' = (is_fitted_ \/ ~f.raised)
    /\ other' = IF other = <<>> THEN other
                ELSE [other EXCEPT !.outlier_bounds_ = BoundsOfOther(f.bounds, @)]

FitReturns(X, f) ==
    /\ Fitted(f)
    /\ call' = IF f.raised THEN Raised("fit", X, X, "stage")
               ELSE Returned("fit", X, X, EmptyTable, {})

\* NBADataCleaner.fit(X)
PipelineFit(X) ==
    /\ target = "pipeline"
    /\ FitReturns(X, FitResult(X))
    /\ UNCHANGED <<target, config, transformers, cleaning_report_>>

\* the body of NBADataCleaner.transform(X) on a pipeline whose stages are in
\* state s and whose bounds are b: X_clean = X.copy(), then the loop
TransformResult(s, b, X) ==
    TransformLoop(config, transformers, s, b, [X_clean |-> X, skipped |-> {}], 1)

\* the end of NBADataCleaner.transform: the report is stored, X_clean returned
TransformReturns(op, X, t) ==
    /\ call' = Returned(op, X, X, t.X_clean, t.skipped)
    /\ cleaning_report_' = <<generate_cleaning_report(config, X, t.X_clean)>>

\* NBADataCleaner.transform(X)
DoTransform(op, X) ==
    /\ IF ~is_fitted_
       THEN /\ call' = Raised(op, X, X, "unfitted")
            /\ UNCHANGED cleaning_report_
       ELSE TransformReturns(op, X, TransformResult(st, outlier_bounds_, X))
    /\ UNCHANGED <<target, config, transformers, st, outlier_bounds_, is_fitted_, other>>

PipelineTransform(X) ==
    /\ target = "pipeline"
    /\ DoTransform("transform", X)

\* NBADataCleaner.transform applied to the table the last transform returned
PipelineRetransform ==
    /\ target = "pipeline"
    /\ call.op \in {"transform", "retransform", "fit_transform"}
    /\ ~call.raised
    /\ DoTransform("retransform", call.out)

FitTransformReturns(X, f) ==
    /\ Fitted(f)
    /\ IF f.raised
       THEN /\ call' = Raised("fit_transform", X, X, "stage")
            /\ UNCHANGED cleaning_report_
       ELSE TransformReturns("fit_transform", X, TransformResult(f.st, f.bounds, X))

\* NBADataCleaner.fit_transform(X): self.fit(X, y).transform(X)
PipelineFitTransform(X) ==
    /\ target = "pipeline"
    /\ FitTransformReturns(X, FitResult(X))
    /\ UNCHANGED <<target, config, transformers>>

StageFitted(f) ==
    /\ st' = [st EXCEPT ![target] = f.fitted]
    /\ outlier_bounds_' = f.bounds

StageFitReturns(X, f) ==
    /\ StageFitted(f)
    /\ call' = IF f.raised THEN Raised("fit", X, X, "stage")
               ELSE Returned("fit", X, X, EmptyTable, {})

\* fit(X) of the stage under test
StageFit(X) ==
    /\ target \in AllStages
    /\ StageFitReturns(X, fit(target, st[target], config, outlier_bounds_, X))
    /\ UNCHANGED <<target, config, transformers, is_fitted_, cleaning_report_, other>>

StageTransformReturns(op, X, t) ==
    call' = IF t.raised THEN Raised(op, X, t.arg, t.error)
            ELSE Returned(op, X, t.arg, t.out, {})

\* transform(X) of the stage under test
StageTransform(X) ==
    /\ target \in AllStages
    /\ StageTransformReturns("transform", X,
                             transform(target, st[target], config, outlier_bounds_, X))
    /\ UNCHANGED <<target, config, transformers, st, outlier_bounds_, is_fitted_,
                   cleaning_report_, other>>

StageFitTransformReturns(X, f) ==
    /\ StageFitted(f)
    /\ IF f.raised THEN call' = Raised("fit_transform", X, X, "stage")
       ELSE StageTransformReturns("fit_transform", X,
                                  transform(target, f.fitted, config, f.bounds, X))

\* fit_transform(X) of the stage under test: self.fit(X, y).transform(X)
StageFitTransform(X) ==
    /\ target \in AllStages
    /\ StageFitTransformReturns(X, fit(target, st[target], config, outlier_bounds_, X))
    /\ UNCHANGED <<target, config, transformers, is_fitted_, cleaning_report_, other>>

\* the state after fit(X) of the second pipeline
OtherFitResult(X) ==
    FitLoop(config, transformers,
            [raised |-> FALSE, st |-> other.st, bounds |-> other.outlier_bounds_,
             X_temp |-> X], 1)

OtherFitReturns(X, f) ==
    /\ other' = [other EXCEPT !.st = f.st,
                              !.outlier_bounds_ = f.bounds,
                              !.is_fitted_ = (@ \/ ~f.raised)]
    /\ outlier_bounds_' = BoundsOfOther(f.bounds, outlier_bounds_)
    /\ call' = IF f.raised THEN Raised("other_fit", X, X, "stage")
               ELSE Returned("other_fit", X, X, EmptyTable, {})

\* NBADataCleaner.fit(X) of the second pipeline
OtherFit(X) ==
    /\ other # <<>>
    /\ OtherFitReturns(X, OtherFitResult(X))
    /\ UNCHANGED <<target, config, transformers, st, is_fitted_, cleaning_report_>>

OtherTransformReturns(X, t) ==
    /\ call' = Returned("other_transform", X, X, t.X_clean, t.skipped)
    /\ other' = [other EXCEPT
                    !.cleaning_report_ = <<generate_cleaning_report(config, X, t.X_clean)>>]

\* NBADataCleaner.transform(X) of the second pipeline
OtherTransform(X) ==
    /\ other # <<>>
    /\ IF ~other.is_fitted_
       THEN /\ call' = Raised("other_transform", X, X, "unfitted")
            /\ UNCHANGED other
       ELSE OtherTransformReturns(X, TransformResult(other.st, other.outlier_bounds_, X))
    /\ UNCHANGED <<target, config, transformers, st, outlier_bounds_, is_fitted_,
                   cleaning_report_>>

\* the config_used entry of a stored report after the config object got the
\* content cfg: the entry is self.config.__dict__, the attribute dict of the
\* config object itself, so it shows every later assignment to the config
config_used(report, cfg) ==
    IF report = <<>> THEN report ELSE <<[report[1] EXCEPT !.config_used = cfg]>>

SetConfigReturns(cfg) ==
    /\ config' = cfg
    /\ cleaning_report_' = config_used(cleaning_report_, cfg)
    /\ other' = IF other = <<>> THEN other
                ELSE [other EXCEPT !.cleaning_report_ = config_used(@, cfg)]
    /\ call' = Returned("set_config", EmptyTable, EmptyTable, EmptyTable, {})

\* the caller assigns to an attribute of the config object of the pipeline,
\* as create_nba_data_cleaner does: config.drop_threshold_missing_pct =
\* missing_threshold
SetConfig(missing_threshold) ==
    /\ target = "pipeline"
    /\ config.drop_threshold_missing_pct # missing_threshold
    /\ SetConfigReturns([config EXCEPT !.drop_threshold_missing_pct = missing_threshold])
    /\ UNCHANGED <<target, transformers, st, outlier_bounds_, is_fitted_>>

Next ==
    \/ \E X \in FitTables : PipelineFit(X)
    \/ \E X \in Tables : PipelineTransform(X)
    \/ PipelineRetransform
    \/ \E X \in FitTables : PipelineFitTransform(X)
    \/ \E X \in FitTables : StageFit(X)
    \/ \E X \in Tables : StageTransform(X)
    \/ \E X \in FitTables : StageFitTransform(X)
    \/ \E X \in OtherFitTables : OtherFit(X)
    \/ \E X \in OtherTables : OtherTransform(X)
    \/ SetConfig(default_missing_threshold)

Spec == Init /\ [][Next]_vars

----------------------------------------------------------------------------
(* Properties *)

TransformOps == {"transform", "retransform", "fit_transform"}

\* the last call was a transform that returned a table
Transformed == call.op \in TransformOps /\ ~call.raised

\* the stage called name ran in the last call
Ran(name) ==
    /\ Transformed
    /\ \E i \in 1..Len(transformers) : transformers[i] = name
    /\ name \notin call.skipped

\* the outlier target columns of table X
Targets(X) == {outlier_columns[i] : i \in 1..Len(outlier_columns)} \cap X.cols

\* the outlier target columns of table X that have stored bounds
Bounded(X) == Targets(X) \cap DOMAIN outlier_bounds_

\* the outliers of the returned table are decided against the stored bounds
DecidedByStored ==
    Ran("outlier_detection") =>
        \A col \in Bounded(call.out) : \A j \in Rows(call.out) :
            IF config.outlier_action = "flag"
            THEN call.out.rows[j][FlagColumn[col]]
                   = Bool(OutlierMask(call.out.rows[j][col], outlier_bounds_[col]))
            ELSE ~OutlierMask(call.out.rows[j][col], outlier_bounds_[col])

\* C1: a transform of the outlier stage or of the pipeline never changes
\* the stored outlier bounds, and the flags (or the capped and the kept
\* values) of the table it returns are decided against the stored bounds,
\* the ones of the last fit, not against bounds computed from its input.
C1_BoundsFromFit ==
    /\ []DecidedByStored
    /\ [][call'.op \in {"transform", "retransform"} => outlier_bounds_' = outlier_bounds_]_vars

\* a transform of a table other than the fitted one flagged a row that the
\* bounds of the transformed table itself would not flag
C1_Witness ==
    /\ Ran("outlier_detection")
    /\ call.op = "transform"
    /\ config.outlier_action = "flag"
    /\ \E col \in Bounded(call.out) : \E j \in Rows(call.out) :
          /\ call.out.rows[j][FlagColumn[col]] = Bool(TRUE)
          /\ ~OutlierMask(call.out.rows[j][col],
                          calculate_outlier_bounds(config, DropNa(Col(call.out, col), 1)))

\* the stages of ts that raise, each on the table the stages before it that
\* did not raise produce from X, and the table the others produce
RECURSIVE Failing(_, _, _)
RECURSIVE FailingAfter(_, _, _, _)
FailingAfter(ts, X, i, r) ==
    IF r.raised THEN {ts[i]} \cup Failing(ts, X, i + 1) ELSE Failing(ts, r.t, i + 1)

Failing(ts, X, i) ==
    IF i > Len(ts) THEN {}
    ELSE FailingAfter(ts, X, i, transform_impl(ts[i], config, outlier_bounds_, X))

RECURSIVE Compose(_, _, _, _)
Compose(ts, X, skipped, i) ==
    IF i > Len(ts) THEN X
    ELSE IF ts[i] \in skipped THEN Compose(ts, X, skipped, i + 1)
    ELSE Compose(ts, transform_impl(ts[i], config, outlier_bounds_, X).t, skipped, i + 1)

\* C2: a transform of a fitted pipeline returns a table and stores a report
\* whatever stage raises; the stages that raise are skipped, each forwards
\* the table it was given to the next stage unchanged, and every other stage
\* runs: the returned table is what the stages that did not raise produce,
\* in order, from the input.
C2_FailingStageSkipped ==
    (target = "pipeline" /\ is_fitted_ /\ call.op \in TransformOps /\ call.error # "stage") =>
        /\ ~call.raised
        /\ cleaning_report_ # <<>>
        /\ call.skipped = Failing(transformers, call.X, 1)
        /\ call.out = Compose(transformers, call.X, call.skipped, 1)

\* a stage raised and a later stage raised too, while stages after each of
\* them ran and changed the table
C2_Witness ==
    /\ target = "pipeline"
    /\ call.op = "transform"
    /\ {"type_conversion", "validation"} \subseteq call.skipped
    /\ Ran("missing_values")
    /\ Ran("final_checks")
    /\ call.out # call.X
    /\ cleaning_report_ # <<>>

\* the object under test is not fitted
Unfitted == IF target = "pipeline" THEN ~is_fitted_ ELSE target \in AllStages /\ ~st[target]

\* C3: transform on a stage or a pipeline that is not fitted fails with the
\* 'unfitted' error, returns no table, produces no report and leaves the
\* fitted state and the stored bounds as they were.
C3_UnfittedTransformFails ==
    /\ []((Unfitted /\ call.op \in {"transform", "retransform"}) =>
             /\ call.raised
             /\ call.error = "unfitted"
             /\ call.out = EmptyTable
             /\ cleaning_report_ = <<>>)
    /\ [][(Unfitted /\ call'.op = "transform") =>
             /\ Unfitted'
             /\ UNCHANGED <<st, is_fitted_, outlier_bounds_, cleaning_report_>>]_vars

\* a pipeline whose fit failed after its first stage was fitted was asked to
\* transform
C3_Witness ==
    /\ call.op = "transform"
    /\ call.error = "unfitted"
    /\ call.X.rows # <<>>
    /\ target = "pipeline"
    /\ st["type_conversion"]

\* the stages of ts before the one called name
Before(ts, name) == SelectSeq(ts, LAMBDA n : \E i, j \in 1..Len(StageNames) :
                                   StageNames[i] = n /\ StageNames[j] = name /\ i < j)

\* the table the outlier stage is fitted on by a fit of the pipeline on X
FittedOn(X) == Compose(Before(transformers, "outlier_detection"), X, {}, 1)

\* C4: the stages of a pipeline are the enabled ones in the fixed order; a
\* fit that returns has fitted each of them, the outlier stage on the table
\* that type coercion, missing-value filling and validation produce from the
\* input, so the stored bounds of every target column of that table are its
\* bounds; and a transform applies the stages in the same order.
C4_FitChainsStages ==
    (target = "pipeline") =>
        /\ transformers = Enabled({transformers[i] : i \in 1..Len(transformers)})
        /\ (call.op \in {"fit", "fit_transform"} /\ call.error # "stage") =>
              /\ \A i \in 1..Len(transformers) : st[transformers[i]]
              /\ \A col \in Targets(FittedOn(call.X)) :
                    "outlier_detection" \in {transformers[i] : i \in 1..Len(transformers)} =>
                        /\ col \in DOMAIN outlier_bounds_
                        /\ outlier_bounds_[col]
                             = calculate_outlier_bounds(config,
                                                        DropNa(Col(FittedOn(call.X), col), 1))
        /\ Transformed =>
              call.out = Compose(Enabled(AllStages \ call.skipped), call.X,
                                 AllStages \ {transformers[i] : i \in 1..Len(transformers)}, 1)

\* a fit of the pipeline stored bounds that differ from the bounds of the
\* raw input
C4_Witness ==
    /\ target = "pipeline"
    /\ call.op = "fit"
    /\ ~call.raised
    /\ \E col \in Bounded(call.X) :
          /\ ~ColHasText(call.X, col)
          /\ outlier_bounds_[col]
               # calculate_outlier_bounds(config, DropNa(Col(call.X, col), 1))

\* C5: after fit, transform or fit_transform of a stage or of the pipeline,
\* whether it returned or raised, the caller's table has the rows, columns
\* and values it had before the call.
C5_InputUnchanged == call.op # "init" => call.after = call.X

\* a validation stage corrected the rebound total of its working table and
\* then raised on a str
C5_Witness ==
    /\ target = "validation"
    /\ config.auto_fix_inconsistencies
    /\ call.op = "transform"
    /\ call.error = "stage"
    /\ \E j \in Rows(call.X) :
          RebMismatch(call.X.rows[j]["reb"],
                      RebSum(call.X.rows[j]["oreb"], call.X.rows[j]["dreb"]))

\* the last call was a transform of the validation stage, with auto-fix,
\* that returned a table
Validated ==
    /\ target = "validation"
    /\ config.auto_fix_inconsistencies
    /\ Transformed

\* the made/attempted pairs that table X has
ShotPairs(X) == {i \in 1..Len(shot_checks) : {shot_checks[i][1], shot_checks[i][2]} \subseteq X.cols}

\* made <= attempted holds: both are numbers, or both str, in that order
Leq(m, a) ==
    \/ IsNum(m) /\ IsNum(a) /\ m[2] <= a[2]
    \/ IsText(m) /\ IsText(a) /\ ~StrGreater(m[2], a[2])

\* C6 as stated: after the validation stage with auto-fix, made <= attempted
\* holds in every row of the output for every pair present.
C6_Original ==
    Validated =>
        \A i \in ShotPairs(call.out) : \A j \in Rows(call.out) :
            Leq(call.out.rows[j][shot_checks[i][1]], call.out.rows[j][shot_checks[i][2]])

\* C6: after the validation stage with auto-fix, made <= attempted holds in
\* every row of the output in which made and attempted are both non-null,
\* for every pair present; a made value above its attempted value has been
\* set to the attempted value, and no other made or attempted value changed.
C6_MadeAtMostAttempted ==
    Validated =>
        /\ NRows(call.out) = NRows(call.X)
        /\ \A i \in ShotPairs(call.out) : \A j \in Rows(call.out) :
              /\ (~IsNull(call.out.rows[j][shot_checks[i][1]])
                    /\ ~IsNull(call.out.rows[j][shot_checks[i][2]]))
                   => Leq(call.out.rows[j][shot_checks[i][1]],
                          call.out.rows[j][shot_checks[i][2]])
              /\ call.out.rows[j][shot_checks[i][2]] = call.X.rows[j][shot_checks[i][2]]
              /\ call.out.rows[j][shot_checks[i][1]]
                   = IF MadeGtAtt(call.X.rows[j][shot_checks[i][1]],
                                  call.X.rows[j][shot_checks[i][2]])
                     THEN call.X.rows[j][shot_checks[i][2]]
                     ELSE call.X.rows[j][shot_checks[i][1]]

\* the validation stage lowered a made value to the attempted value of its
\* row
C6_Witness ==
    /\ Validated
    /\ \E i \in ShotPairs(call.out) : \E j \in Rows(call.out) :
          /\ IsNum(call.X.rows[j][shot_checks[i][1]])
          /\ IsNum(call.X.rows[j][shot_checks[i][2]])
          /\ call.X.rows[j][shot_checks[i][1]][2] > call.X.rows[j][shot_checks[i][2]][2]
          /\ call.out.rows[j][shot_checks[i][1]] = call.X.rows[j][shot_checks[i][2]]

\* reb equals oreb + dreb within the tolerance: the three are numbers
RebConsistent(row) ==
    /\ IsNum(row["reb"]) /\ IsNum(row["oreb"]) /\ IsNum(row["dreb"])
    /\ Abs(row["reb"][2] - (row["oreb"][2] + row["dreb"][2])) <= RebTolerance

HasRebounds(X) == {"reb", "oreb", "dreb"} \subseteq X.cols

\* C7 as stated: after the validation stage with auto-fix, reb equals
\* oreb + dreb within 0.1 in every row of the output.
C7_Original ==
    (Validated /\ HasRebounds(call.out)) =>
        \A j \in Rows(call.out) : RebConsistent(call.out.rows[j])

\* C7: after the validation stage with auto-fix, reb equals oreb + dreb
\* within 0.1 in every row of the output in which reb, oreb and dreb are all
\* non-null; a total that mismatched has been recomputed as the sum, every
\* total is the input's or the sum, and oreb and dreb are never changed.
C7_RebEqualsSum ==
    (Validated /\ HasRebounds(call.out)) =>
        /\ NRows(call.out) = NRows(call.X)
        /\ \A j \in Rows(call.out) :
              /\ call.out.rows[j]["oreb"] = call.X.rows[j]["oreb"]
              /\ call.out.rows[j]["dreb"] = call.X.rows[j]["dreb"]
              /\ (\A c \in {"reb", "oreb", "dreb"} : ~IsNull(call.out.rows[j][c]))
                    => RebConsistent(call.out.rows[j])
              /\ call.out.rows[j]["reb"]
                    \in {call.X.rows[j]["reb"],
                         RebSum(call.X.rows[j]["oreb"], call.X.rows[j]["dreb"])}
              /\ RebMismatch(call.X.rows[j]["reb"],
                             RebSum(call.X.rows[j]["oreb"], call.X.rows[j]["dreb"]))
                    => call.out.rows[j]["reb"]
                         = RebSum(call.X.rows[j]["oreb"], call.X.rows[j]["dreb"])

\* the validation stage replaced a mismatching total by the sum
C7_Witness ==
    /\ Validated
    /\ HasRebounds(call.out)
    /\ \E j \in Rows(call.out) :
          /\ ~RebConsistent(call.X.rows[j])
          /\ RebConsistent(call.out.rows[j])
          /\ call.out.rows[j]["reb"] # call.X.rows[j]["reb"]

\* the last call was a transform of the missing-value stage, with zero
\* filling of the counting stats, that returned a table
Filled ==
    /\ target = "missing_values"
    /\ config.fill_counting_stats_with_zero
    /\ Transformed

\* the counting-stat columns of table X
CountingStats(X) == {counting_stats[i] : i \in 1..Len(counting_stats)} \cap X.cols

\* C8: after the missing-value stage with fill_counting_stats_with_zero, no
\* counting-stat column of the output holds a null in any row; a value that
\* was non-null is unchanged and a null has become 0.
C8_CountingStatsFilled ==
    Filled =>
        /\ NRows(call.out) = NRows(call.X)
        /\ CountingStats(call.out) = CountingStats(call.X)
        /\ \A col \in CountingStats(call.out) : \A j \in Rows(call.out) :
              /\ ~IsNull(call.out.rows[j][col])
              /\ call.out.rows[j][col]
                   = IF IsNull(call.X.rows[j][col]) THEN Num(0) ELSE call.X.rows[j][col]

\* the missing-value stage filled a null counting stat of a row that also
\* has a non-null one
C8_Witness ==
    /\ Filled
    /\ \E c, d \in CountingStats(call.X) : \E j \in Rows(call.X) :
          /\ IsNull(call.X.rows[j][c])
          /\ call.out.rows[j][c] = Num(0)
          /\ ~IsNull(call.X.rows[j][d])

\* the outlier target columns of table X and their flag columns in X
TargetsAndFlags(X) == Targets(X) \cup ({FlagColumn[c] : c \in Targets(X)} \cap X.cols)

\* the last call applied the pipeline's transform to the table the call
\* before it returned, under outlier action cap or flag
Retransformed ==
    /\ target = "pipeline"
    /\ config.outlier_action \in {"cap", "flag"}
    /\ call.op = "retransform"
    /\ ~call.raised

\* C9: with the same fitted bounds and outlier action cap or flag, the
\* pipeline's transform applied to the output of its previous transform
\* leaves the outlier target columns and their flag columns unchanged.
C9_TransformIdempotent ==
    Retransformed =>
        /\ NRows(call.out) = NRows(call.X)
        /\ TargetsAndFlags(call.out) = TargetsAndFlags(call.X)
        /\ \A col \in TargetsAndFlags(call.X) : \A j \in Rows(call.X) :
              call.out.rows[j][col] = call.X.rows[j][col]

\* C10: after every transform of the pipeline that returns, the stored
\* report has columns_added equal to the number of columns of the returned
\* table minus that of the caller's table, and rows_removed equal to the
\* caller's row count minus the returned one, whether or not stages were
\* skipped.
C10_ReportShapes ==
    (target = "pipeline" /\ Transformed) =>
        /\ Len(cleaning_report_) = 1
        /\ cleaning_report_[1].columns_added
             = Cardinality(call.out.cols) - Cardinality(call.X.cols)
        /\ cleaning_report_[1].rows_removed = NRows(call.X) - NRows(call.out)

\* a transform in which a stage was skipped returned a table with more
\* columns than its input
C10_Witness ==
    /\ target = "pipeline"
    /\ Transformed
    /\ call.skipped # {}
    /\ cleaning_report_[1].columns_added > 0

\* the pair (player_id, game_id) of row j of X occurs in no earlier row
FirstOfPair(X, j) ==
    \A k \in 1..(j - 1) :
        ~(/\ SameKey(X.rows[k]["player_id"], X.rows[j]["player_id"])
          /\ SameKey(X.rows[k]["game_id"], X.rows[j]["game_id"]))

\* the last call is a transform of the final stage, or a fit_transform of a
\* pipeline with the default configuration, of a table with both key columns
Deduplicated ==
    /\ Transformed
    /\ {"player_id", "game_id"} \subseteq call.X.cols
    /\ \/ target = "final_checks"
       \/ target = "pipeline" /\ config = DefaultConfig /\ call.op = "fit_transform"

\* C11: after a transform of the final stage, and after a fit_transform of
\* a pipeline with the default configuration, of a table with player_id and
\* game_id, no two rows of the output share a (player_id, game_id) pair and
\* every pair of the input survives once, as its first occurrence: the
\* output has one row for each first occurrence of the input, and the final
\* stage on its own returns exactly the first occurrences, in input order.
C11_DedupKeepsFirst ==
    Deduplicated =>
        /\ \A j \in Rows(call.out) : FirstOfPair(call.out, j)
        /\ NRows(call.out) = Cardinality({j \in Rows(call.X) : FirstOfPair(call.X, j)})
        /\ target = "final_checks" =>
              call.out.rows = KeepRows(call.X.rows, [j \in Rows(call.X) |-> FirstOfPair(call.X, j)], 1)

\* the step is a transform of the stage under test, fitted by the call
\* before it on a table with a column that the transformed table lacks
LacksFittedColumns ==
    /\ target \in AllStages
    /\ call.op \in {"fit", "fit_transform"}
    /\ ~call.raised
    /\ call'.op = "transform"
    /\ call.X.cols \ call'.X.cols # {}

\* C12: with strict_validation enabled, a fitted stage that is given a
\* table lacking a column that was present at fit time fails with a
\* missing-columns error; with strict_validation disabled the stage skips
\* the absent columns and returns.
C12_MissingColumnsRaise ==
    [][LacksFittedColumns =>
          IF config.strict_validation THEN call'.raised ELSE ~call'.raised]_vars

\* C13: a CleaningConfig whose outlier_method is outside {iqr, zscore} or
\* whose outlier_action is outside {flag, cap, remove} fails at
\* construction, so that no object is built from it; the config that a
\* pipeline or a stage holds satisfies both memberships in every state;
\* and a preset or factory function hands the config over as it was
\* constructed, without modifying it afterwards.
C13_ConfigValid ==
    /\ (target = "none") <=> post_init(config)
    /\ (call.op = "init" /\ ~call.raised) => config = call.constructed

\* the columns that the validation compares with a number or with each other
ComparedColumns ==
    {"minutes_played", "fgm", "fga", "fg3m", "fg3a", "ftm", "fta", "oreb", "dreb", "reb",
     "fg_pct", "fg3_pct", "ft_pct", "pts", "ast"}

\* table X breaks one of the four rules that the validation can fix
Violates(X) ==
    \E j \in Rows(X) :
        \/ "minutes_played" \in X.cols
             /\ GtNum(X.rows[j]["minutes_played"], config.max_minutes_per_game)
        \/ \E i \in ShotPairs(X) :
              MadeGtAtt(X.rows[j][shot_checks[i][1]], X.rows[j][shot_checks[i][2]])
        \/ {"reb", "oreb", "dreb"} \subseteq X.cols
             /\ RebMismatch(X.rows[j]["reb"], RebSum(X.rows[j]["oreb"], X.rows[j]["dreb"]))
        \/ \E c \in {"fg_pct", "fg3_pct", "ft_pct"} \cap X.cols :
              LtNum(X.rows[j][c], 0) \/ GtNum(X.rows[j][c], Scale)

\* C14: with auto_fix_inconsistencies false a transform of the validation
\* stage returns its input, cell for cell; with either setting it leaves pts
\* and ast as they were, and it raises only for a str in a compared column
\* (a type error), never because a rule is violated.
C14_ReportOnlyValidation ==
    (target = "validation" /\ call.op \in TransformOps /\ call.error # "unfitted") =>
        /\ (~call.raised /\ ~config.auto_fix_inconsistencies) => call.out = call.X
        /\ ~call.raised =>
              \A c \in {"pts", "ast"} \cap call.X.cols :
                  c \in call.out.cols /\ Col(call.out, c) = Col(call.X, c)
        /\ call.raised => \E c \in ComparedColumns \cap call.X.cols : ColHasText(call.X, c)

\* tables breaking each fixable rule were returned unchanged by a stage with
\* auto_fix_inconsistencies false
C14_Witness ==
    /\ target = "validation"
    /\ ~config.auto_fix_inconsistencies
    /\ Transformed
    /\ Violates(call.X)
    /\ call.out = call.X
    /\ "ast" \in call.X.cols

\* the minutes that the contract gives for the values of the column min in
\* the model's tables: M + S/60 for "M:S", M for a string or a number M, and
\* 0 for an absent or unparsable value
ClaimedMinutes ==
    (Txt(<<"3", "0", ":", "4", "5">>) :> N(30) + (3 * Scale) \div 4)
    @@ (Txt(<<"5", ":", "3", "0">>) :> N(5) + Scale \div 2)
    @@ (Txt(<<"7", "0">>) :> N(70))
    @@ (Txt(<<"-", "5">>) :> 0 - N(5))
    @@ (I(12) :> N(12))
    @@ (I(10) :> N(10))
    @@ (Txt(<<"x">>) :> 0)
    @@ (NULL :> 0)

\* the last call is a transform of the type conversion stage on a table
\* with the column min
MinutesConverted ==
    /\ target = "type_conversion"
    /\ Transformed
    /\ "min" \in call.X.cols

\* the minutes of every row are the claimed ones
MinutesAsClaimed ==
    \A j \in Rows(call.X) :
        call.out.rows[j]["minutes_played"] = Num(ClaimedMinutes[call.X.rows[j]["min"]])

\* C15: convert_to_decimal returns M + S/60 for a string "M:S", M for a
\* string or a number M and 0.0 for an absent, empty or unparsable value; it
\* never raises, and its result is non-negative for every input.
C15_MinutesConversion ==
    MinutesConverted =>
        /\ "minutes_played" \in call.out.cols
        /\ MinutesAsClaimed
        /\ \A j \in Rows(call.out) : call.out.rows[j]["minutes_played"][2] >= 0

\* the calls on the first pipeline and the calls on the second one
OpsOfP == {"fit", "fit_transform", "transform", "retransform"}

OpsOfQ == {"other_fit", "other_transform"}

\* the outlier target columns of table X that have bounds in the second
\* pipeline
BoundedByOther(X) == Targets(X) \cap DOMAIN other.outlier_bounds_

\* a call on one pipeline leaves the stages, the bounds, the fitted flag and
\* the report of the other pipeline as they were
OnlyOwnState ==
    /\ call'.op \in OpsOfP => other' = other
    /\ call'.op \in OpsOfQ =>
          UNCHANGED <<st, outlier_bounds_, is_fitted_, cleaning_report_, config>>

\* a fit of the second pipeline that returned stored, for every target column
\* of its table, the bounds of that table
OwnFitStored ==
    (call'.op = "other_fit" /\ ~call'.raised) =>
        \A col \in Targets(call'.X) :
            /\ col \in DOMAIN other'.outlier_bounds_
            /\ other'.outlier_bounds_[col]
                 = calculate_outlier_bounds(config, DropNa(Col(call'.X, col), 1))

\* the flags of the table a transform of the second pipeline returned are
\* decided against the bounds the second pipeline stored
DecidedByOwn ==
    (call'.op = "other_transform" /\ ~call'.raised) =>
        /\ other'.outlier_bounds_ = other.outlier_bounds_
        /\ \A col \in BoundedByOther(call'.out) : \A j \in Rows(call'.out) :
              call'.out.rows[j][FlagColumn[col]]
                = Bool(OutlierMask(call'.out.rows[j][col], other.outlier_bounds_[col]))

TransformReturned == call'.op \in TransformOps /\ ~call'.raised

\* C17: the report of a pipeline is absent until a transform returns, is
\* made by each transform that returns from the tables and the config of
\* that call, and is changed by nothing else: neither a fit, nor a transform
\* that raises, nor a later change to the pipeline's config changes any of
\* its fields, the config snapshot included.
C17_ReportNotMutated ==
    /\ []((target = "pipeline" /\ Transformed) =>
             /\ Len(cleaning_report_) = 1
             /\ cleaning_report_[1] = generate_cleaning_report(config, call.X, call.out))
    /\ [][(target = "pipeline" /\ ~TransformReturned) =>
             cleaning_report_' = cleaning_report_]_vars

\* the last call is a fit or a fit_transform of the outlier stage that
\* returned
OutlierFitted ==
    /\ target = "outlier_detection"
    /\ call.op \in {"fit", "fit_transform"}
    /\ ~call.raised

\* the stored bounds of the target columns of table X, and no others
BoundsOver(X) == [col \in Targets(X) \cap DOMAIN outlier_bounds_ |-> outlier_bounds_[col]]

\* C18: after every fit of the outlier stage, the first or a later one, the
\* stored bounds are exactly those of the table of that fit: the keys are the
\* target columns of that table and each pair is computed from it; so the
\* next transform acts only on the target columns of the latest fit table.
C18_RefitOverwrites ==
    /\ [](OutlierFitted =>
             /\ DOMAIN outlier_bounds_ = Targets(call.X)
             /\ \A col \in Targets(call.X) :
                   outlier_bounds_[col]
                     = calculate_outlier_bounds(config, DropNa(Col(call.X, col), 1)))
    /\ [][(OutlierFitted /\ call'.op = "transform" /\ ~call'.raised) =>
             call'.out = OutlierDetector_impl(config, BoundsOver(call.X), call'.X).t]_vars

\* column col of table X exists and holds at least one non-null value
HasValue(X, col) == col \in X.cols /\ \E j \in Rows(X) : ~IsNull(X.rows[j][col])

\* the last step was a fit or a fit_transform of the outlier stage that
\* returned
OutlierFitStep ==
    /\ target = "outlier_detection"
    /\ call'.op \in {"fit", "fit_transform"}
    /\ ~call'.raised

\* the step gave column col an entry, or another entry than it had
EntryWritten(col) ==
    col \notin DOMAIN outlier_bounds_ \/ outlier_bounds_'[col] # outlier_bounds_[col]

\* lower <= upper
Ordered(b) == IsNum(b.lo) /\ IsNum(b.hi) /\ b.lo[2] <= b.hi[2]

\* C19: a fit of the outlier stage writes an entry of the bounds mapping
\* only for a target column that exists in the fit table and has at least
\* one non-null value there (an absent or entirely null target column gets
\* no entry), and every stored pair has lower <= upper.
C19_BoundsOnlyFittable ==
    [][OutlierFitStep =>
          \A col \in DOMAIN outlier_bounds_' :
              /\ EntryWritten(col) => (col \in Targets(call'.X) /\ HasValue(call'.X, col))
              /\ Ordered(outlier_bounds_'[col])]_vars

\* the last call is a transform of the outlier stage with action remove that
\* returned
Removed ==
    /\ target = "outlier_detection"
    /\ config.outlier_action = "remove"
    /\ call.op \in {"transform", "fit_transform"}
    /\ ~call.raised

\* the non-null value c lies outside [b.lo, b.hi]
Outside(c, b) ==
    IsNum(c) /\ ((IsNum(b.lo) /\ c[2] < b.lo[2]) \/ (IsNum(b.hi) /\ c[2] > b.hi[2]))

\* row has no value outside the stored bounds in a bounded column of X
WithinBounds(X, row) ==
    \A col \in Bounded(X) : ~Outside(row[col], outlier_bounds_[col])

\* C20: with outlier_action remove, the table a transform of the outlier
\* stage returns has the columns of the input and, in their input order,
\* exactly the rows that are within the stored bounds in every bounded
\* column: a row outside the bounds of one column is gone whatever the
\* later columns hold, and no surviving row has a non-null value outside
\* [lower, upper] in a bounded column.
C20_RemoveSequential ==
    Removed =>
        /\ call.out.cols = call.X.cols
        /\ call.out.rows = SelectSeq(call.X.rows, LAMBDA row : WithinBounds(call.X, row))

\* a transform with bounds for two columns dropped a row that is within
\* the bounds of the first column and outside those of a later one, and
\* returned another row
C20_Witness ==
    /\ Removed
    /\ call.out.rows # <<>>
    /\ \E j \in Rows(call.X) :
          /\ "pts" \in Bounded(call.X)
          /\ "reb" \in Bounded(call.X)
          /\ ~Outside(call.X.rows[j]["pts"], outlier_bounds_["pts"])
          /\ Outside(call.X.rows[j]["reb"], outlier_bounds_["reb"])
          /\ \A k \in Rows(call.out) : call.out.rows[k] # call.X.rows[j]

\* the last call is a transform of the outlier stage with action flag that
\* returned
Flagged ==
    /\ target = "outlier_detection"
    /\ config.outlier_action = "flag"
    /\ call.op \in {"transform", "fit_transform"}
    /\ ~call.raised

CleanedByAll ==
    /\ target = "pipeline"
    /\ transformers = StageNames
    /\ config.auto_fix_inconsistencies
    /\ Ran("validation")

\* C22: the table returned by the transform of a pipeline with all stages
\* and auto-fix satisfies, in every row, made <= attempted for each shot
\* pair present and reb = oreb + dreb when the three columns are present,
\* whatever the outlier action: no stage after validation breaks them.
C22_ConsistentAfterPipeline ==
    CleanedByAll =>
        \A j \in Rows(call.out) :
            /\ \A i \in ShotPairs(call.out) :
                  Leq(call.out.rows[j][shot_checks[i][1]], call.out.rows[j][shot_checks[i][2]])
            /\ HasRebounds(call.out) => RebConsistent(call.out.rows[j])

\* the percentage/attempts pairs that table X has
PctPairs(X) ==
    {i \in 1..Len(percentage_mappings) :
        {percentage_mappings[i][1], percentage_mappings[i][2]} \subseteq X.cols}

\* C23: after a transform of the missing-value stage with zero filling of
\* the counting stats, no row of the output has attempts equal to 0 and a
\* null percentage, for every percentage/attempts pair present, also when
\* the attempts were null in the input and filled by this call; and the
\* stage applied to its own output returns it unchanged.
C23_NoZeroAttemptsNullPct ==
    Filled =>
        /\ \A i \in PctPairs(call.out) : \A j \in Rows(call.out) :
              ~(/\ call.out.rows[j][percentage_mappings[i][2]] = Num(0)
                /\ IsNull(call.out.rows[j][percentage_mappings[i][1]]))
        /\ MissingValueHandler_impl(config, call.out).t = call.out

\* the step is a fit or a fit_transform of the pipeline on a table for which
\* a stage raises during the loop of fit
FitFails ==
    /\ target = "pipeline"
    /\ call'.op \in {"fit", "fit_transform"}
    /\ FitResult(call'.X).raised

\* C24: when a stage's fit or transform raises during the fit of the
\* pipeline, the call raises and leaves the pipeline as it was: its fitted
\* flag, the fitted flag of every stage and the stored outlier bounds are
\* unchanged.
C24_FitAllOrNothing ==
    [][FitFails =>
          /\ call'.raised
          /\ UNCHANGED <<is_fitted_, st, outlier_bounds_>>]_vars

\* |reb - (oreb + dreb)| > 0.1 in a row: the three are numbers and differ
RowMismatch(row) ==
    /\ IsNum(row["reb"]) /\ IsNum(row["oreb"]) /\ IsNum(row["dreb"])
    /\ Abs(row["reb"][2] - (row["oreb"][2] + row["dreb"][2])) > RebTolerance

\* C25: the rebound auto-fix of the validation stage changes reb only in
\* the rows where |reb - (oreb + dreb)| > 0.1: a row whose reb matches the
\* sum, or whose oreb or dreb is null, has in the output the reb of the
\* input, also when another row of the table mismatches.
C25_RebFixOnlyMismatch ==
    (Validated /\ HasRebounds(call.X)) =>
        /\ NRows(call.out) = NRows(call.X)
        /\ \A j \in Rows(call.X) :
              ~RowMismatch(call.X.rows[j]) => call.out.rows[j]["reb"] = call.X.rows[j]["reb"]

====
